---- MODULE Spec2Model ----
(***************************************************************************)
(* Model of the rb-gateway GraphQL gateway (src/src/index.js).             *)
(*                                                                         *)
(* The process loads the module, calls runServer(), which awaits           *)
(* createNewSchema(REMOTE_SCHEMA_URIS), which awaits                       *)
(* createRemoteExecutableSchemas(uris).  The latter builds one HttpLink    *)
(* per URI, issues one introspectSchema call per link, awaits Promise.all  *)
(* of them and wraps every result with makeRemoteExecutableSchema.  The    *)
(* merged schema is handed to an ApolloServer which then listens; client   *)
(* requests on the link fields User.cart / User.orders are served by the   *)
(* resolvers of createLinkResolvers, which delegate to schemas[0] and      *)
(* schemas[1].                                                             *)
(*                                                                         *)
(* JavaScript arrays are 0-based, TLA+ sequences 1-based: position p of    *)
(* the source is index p + 1 here (see At).                                *)
(***************************************************************************)
EXTENDS Integers, Sequences, FiniteSets, TLC

\* Length of REMOTE_SCHEMA_URIS (index.js:15-19).
NumUpstreams == 3

\* Number of client requests that may be in flight at the same time.
MaxInflight == 2

Positions == 1..NumUpstreams
Requests == 1..MaxInflight

\* The endpoints the three environment variables may name.
URIs == {"uriA", "uriB", "uriC"}

\* Argument objects a client may send with a link field.
ArgValues == {"args1", "args2"}

\* The two link fields of linkTypeDefs.
LinkFields == {"cart", "orders"}

\* The fixed message of the catch block (index.js:42).
ErrorMessage == "Error creating remote executable schemas"

\* The line logged once the server is bound (index.js:119).
ListenMessage == "Eagles soaring high at url"

VARIABLES
    uris,          \* REMOTE_SCHEMA_URIS: the configured URIs, in order
    unreachable,   \* environment: URIs whose introspection fails at startup
    wrapThrows,    \* environment: makeRemoteExecutableSchema throws
    mergeThrows,   \* environment: mergeSchemas throws (incompatible types)
    bindFails,     \* environment: the port cannot be bound
    pc,            \* position of the startup chain runServer/createNewSchema/...
    links,         \* const links (index.js:29)
    promises,      \* const remoteSchemaPromises (index.js:34)
    all,           \* the promise returned by Promise.all (index.js:35)
    schemas,       \* settlement of createRemoteExecutableSchemas(uris)
    unified,       \* value returned by mergeSchemas
    server,        \* the ApolloServer instance
    mergeCount,    \* number of calls of mergeSchemas so far
    rejection,     \* reason the promise of runServer() was rejected with
    stdout,        \* lines written by console.log
    stderr,        \* lines written by console.error
    lateSettled,   \* history: introspection calls settled after the loader returned
    outOfOrder,    \* history: a call settled while one at a lower position was pending
    req            \* the client requests in flight

vars == <<uris, unreachable, wrapThrows, mergeThrows, bindFails, pc, links,
          promises, all, schemas, unified, server, mergeCount, rejection,
          stdout, stderr, lateSettled, outOfOrder, req>>

envVars == <<uris, unreachable, wrapThrows, mergeThrows, bindFails>>

-----------------------------------------------------------------------------
(* Values *)

\* JavaScript's array[p] for a 0-based position p.
At(array, p) == array[p + 1]

\* The orders in which the three environment variables can name the endpoints.
UriLists == {u \in [Positions -> URIs] : \A i, j \in Positions : u[i] = u[j] => i = j}

\* new HttpLink({ uri, fetch })
HttpLink(uri) == [uri |-> uri]

\* The schema an introspection query over `link` answers with: the type
\* system of the service that link is bound to.
IntrospectionResult(link) == [from |-> link.uri]

NoSchema == [from |-> "none"]

\* makeRemoteExecutableSchema({ schema, link })
makeRemoteExecutableSchema(schema, link) == [schema |-> schema, link |-> link]

\* The extension fragment (index.js:50-55), appended to the list of schemas.
linkTypeDefs == [schema |-> [from |-> "linkTypeDefs"], link |-> [uri |-> "none"]]

NoPromise == [state |-> "notIssued", value |-> NoSchema]

\* Settlement of an async function that has not returned yet.
Pending == [tag |-> "pending", val |-> <<>>]
Undefined == [tag |-> "undefined", val |-> <<>>]
Array(list) == [tag |-> "array", val |-> list]
Thrown == [tag |-> "rejected", val |-> <<>>]

NoResolvers == [User |-> [cart   |-> [fragment |-> "none", schemas |-> <<>>],
                          orders |-> [fragment |-> "none", schemas |-> <<>>]]]

NoUnified == [built |-> FALSE, schemas |-> <<>>, resolvers |-> NoResolvers]

NoServer == [constructed |-> FALSE, schema |-> NoUnified,
             introspection |-> FALSE, playground |-> FALSE]

IdleRequest == [status |-> "idle", field |-> "none", args |-> "none",
                calls |-> <<>>, failing |-> {}, response |-> "none"]

-----------------------------------------------------------------------------
(* Promise.all *)

PromiseAllInit == [state |-> "pending",
                   values |-> [i \in Positions |-> NoSchema],
                   remaining |-> NumUpstreams,
                   reason |-> 0]

\* Mutant: the results are collected in the order the calls complete.
PromiseAllResolveElementPush(a, i, v) ==
    IF a.state # "pending" THEN a
    ELSE LET k == NumUpstreams - a.remaining + 1
             vals == [a.values EXCEPT ![k] = v]
         IN [a EXCEPT !.values = vals,
                      !.remaining = a.remaining - 1,
                      !.state = IF a.remaining = 1 THEN "fulfilled" ELSE "pending"]

\* Mutant: the aggregate is fulfilled by the first result (Promise.race).
PromiseAllResolveElementRace(a, i, v) ==
    IF a.state # "pending" THEN a
    ELSE [a EXCEPT !.values = [a.values EXCEPT ![i] = v],
                   !.remaining = a.remaining - 1,
                   !.state = "fulfilled"]

\* Element i of the iterable fulfilled with v: the value is stored at index i
\* and the aggregate is fulfilled when no element remains.
PromiseAllResolveElement(a, i, v) ==
    IF a.state # "pending" THEN a
    ELSE [a EXCEPT !.values = [a.values EXCEPT ![i] = v],
                   !.remaining = a.remaining - 1,
                   !.state = IF a.remaining = 1 THEN "fulfilled" ELSE "pending"]

\* Element i rejected: the aggregate is rejected with that reason, unless it
\* is settled already.
PromiseAllRejectElement(a, i) ==
    IF a.state # "pending" THEN a
    ELSE [a EXCEPT !.state = "rejected", !.reason = i]

-----------------------------------------------------------------------------
(* createRemoteExecutableSchemas *)

\* links.map(introspectSchema): one call per link, all issued by the same
\* synchronous map.
IssueIntrospections(ls) ==
    [i \in Positions |-> [state |-> "pending", value |-> NoSchema]]

\* remoteSchemas.map((schema, index) => makeRemoteExecutableSchema({schema, link: links[index]}))
WrapAll(remoteSchemas, ls) ==
    [i \in Positions |-> makeRemoteExecutableSchema(remoteSchemas[i], ls[i])]

\* Mutant: the catch block returns the proxies of the upstreams that answered.
LoaderResultPartial(a, ps, ls, throws) ==
    IF a.state = "fulfilled" /\ ~throws
    THEN Array(WrapAll(a.values, ls))
    ELSE LET ok == {i \in Positions : ps[i].state = "fulfilled"}
             Pick[S \in SUBSET Positions] ==
                 IF S = {} THEN <<>>
                 ELSE LET m == CHOOSE x \in S : \A y \in S : x <= y
                      IN <<makeRemoteExecutableSchema(ps[m].value, ls[m])>>
                         \o Pick[S \ {m}]
         IN Array(Pick[ok])

\* Mutant: no catch block, the failure is rethrown to the caller.
LoaderResultRethrow(a, ps, ls, throws) ==
    IF a.state = "fulfilled" /\ ~throws
    THEN Array(WrapAll(a.values, ls))
    ELSE Thrown

\* What the async function settles with once `await Promise.all` resumes:
\* the wrapped list, or undefined when the try block threw (the catch block
\* has no return statement).
LoaderResult(a, ps, ls, throws) ==
    IF a.state = "fulfilled" /\ ~throws
    THEN Array(WrapAll(a.values, ls))
    ELSE Undefined

\* Whether the catch block ran.
LoaderCaught(a, throws) == ~(a.state = "fulfilled" /\ ~throws)

-----------------------------------------------------------------------------
(* createLinkResolvers *)

createLinkResolvers(list) ==
    [User |-> [cart   |-> [fragment |-> "... on User { id }", schemas |-> list],
               orders |-> [fragment |-> "... on User { id }", schemas |-> list]]]

\* Mutant: User.cart asks for the wrong root field.
resolveCartWrongField(closure, args, context, info) ==
    <<[schema |-> At(closure.schemas, 0), operation |-> "query",
       fieldName |-> "ordersForCurrentCustomer",
       args |-> args, context |-> context, info |-> info]>>

\* User.cart.resolve(_, args, context, info): the calls of
\* info.mergeInfo.delegateToSchema it makes, each with its argument.
resolveCart(closure, args, context, info) ==
    <<[schema |-> At(closure.schemas, 0), operation |-> "query",
       fieldName |-> "cartForCurrentUser",
       args |-> args, context |-> context, info |-> info]>>

\* Mutant: User.orders delegates to the cart service.
resolveOrdersToCart(closure, args, context, info) ==
    <<[schema |-> At(closure.schemas, 0), operation |-> "query",
       fieldName |-> "ordersForCurrentCustomer",
       args |-> args, context |-> context, info |-> info]>>

\* User.orders.resolve(_, args, context, info): the calls of
\* info.mergeInfo.delegateToSchema it makes, each with its argument.
resolveOrders(closure, args, context, info) ==
    <<[schema |-> At(closure.schemas, 1), operation |-> "query",
       fieldName |-> "ordersForCurrentCustomer",
       args |-> args, context |-> context, info |-> info]>>

-----------------------------------------------------------------------------
(* mergeSchemas *)

\* mergeSchemas({ schemas: schemas.concat(linkTypeDefs), resolvers })
mergeSchemas(list, resolvers) ==
    [built |-> TRUE, schemas |-> list, resolvers |-> resolvers]

\* schemas.concat(linkTypeDefs)
Concat(list) ==
    [i \in 1..(Len(list) + 1) |-> IF i <= Len(list) THEN list[i] ELSE linkTypeDefs]

-----------------------------------------------------------------------------
(* Initial state: the module is loaded, runServer() has not been called. *)

Init ==
    /\ uris \in UriLists
    /\ unreachable \in SUBSET URIs
    /\ wrapThrows \in BOOLEAN
    /\ mergeThrows \in BOOLEAN
    /\ bindFails \in BOOLEAN
    /\ pc = "load"
    /\ links = <<>>
    /\ promises = [i \in Positions |-> NoPromise]
    /\ all = PromiseAllInit
    /\ schemas = Pending
    /\ unified = NoUnified
    /\ server = NoServer
    /\ mergeCount = 0
    /\ rejection = "none"
    /\ stdout = <<>>
    /\ stderr = <<>>
    /\ lateSettled = {}
    /\ outOfOrder = FALSE
    /\ req = [r \in Requests |-> IdleRequest]

-----------------------------------------------------------------------------
(* Startup *)

\* The top-level try block calls runServer(), which runs synchronously through
\* createNewSchema into createRemoteExecutableSchemas up to `await Promise.all`.
\* runServer is async: the call returns a promise and never throws, so the
\* try block is left without entering catch.
Main ==
    /\ pc = "load"
    /\ links' = [i \in Positions |-> HttpLink(uris[i])]
    /\ promises' = IssueIntrospections(links')
    /\ all' = PromiseAllInit
    /\ pc' = "awaitAll"
    /\ UNCHANGED <<envVars, schemas, unified, server, mergeCount, rejection,
                   stdout, stderr, lateSettled, outOfOrder, req>>

\* Mutant: every failing introspection call logs the message itself.
IntrospectSettleLogging(i) ==
    /\ promises[i].state = "pending"
    /\ IF links[i].uri \in unreachable
       THEN /\ promises' = [promises EXCEPT ![i] = [state |-> "rejected", value |-> NoSchema]]
            /\ all' = PromiseAllRejectElement(all, i)
            /\ stdout' = Append(stdout, ErrorMessage)
       ELSE /\ promises' = [promises EXCEPT ![i] =
                   [state |-> "fulfilled", value |-> IntrospectionResult(links[i])]]
            /\ all' = PromiseAllResolveElement(all, i, IntrospectionResult(links[i]))
            /\ stdout' = stdout
    /\ lateSettled' = IF schemas.tag # "pending" THEN lateSettled \cup {i} ELSE lateSettled
    /\ outOfOrder' = (outOfOrder \/ \E j \in 1..(i - 1) : promises[j].state = "pending")
    /\ UNCHANGED <<envVars, pc, links, schemas, unified, server, mergeCount,
                   rejection, stderr, req>>

\* The introspection call issued for links[i] settles, in any order with
\* respect to the other calls, and Promise.all takes note of it.
IntrospectSettle(i) ==
    /\ promises[i].state = "pending"
    /\ IF links[i].uri \in unreachable
       THEN /\ promises' = [promises EXCEPT ![i] = [state |-> "rejected", value |-> NoSchema]]
            /\ all' = PromiseAllRejectElement(all, i)
       ELSE /\ promises' = [promises EXCEPT ![i] =
                   [state |-> "fulfilled", value |-> IntrospectionResult(links[i])]]
            /\ all' = PromiseAllResolveElement(all, i, IntrospectionResult(links[i]))
    /\ lateSettled' = IF schemas.tag # "pending" THEN lateSettled \cup {i} ELSE lateSettled
    /\ outOfOrder' = (outOfOrder \/ \E j \in 1..(i - 1) : promises[j].state = "pending")
    /\ UNCHANGED <<envVars, pc, links, schemas, unified, server, mergeCount,
                   rejection, stdout, stderr, req>>

\* createRemoteExecutableSchemas resumes after `await Promise.all(...)`:
\* it returns the wrapped list, or logs in the catch block and returns
\* undefined.
LoaderResume ==
    /\ pc = "awaitAll"
    /\ all.state # "pending"
    /\ schemas' = LoaderResult(all, promises, links, wrapThrows)
    /\ stdout' = IF LoaderCaught(all, wrapThrows)
                 THEN Append(stdout, ErrorMessage) ELSE stdout
    /\ pc' = "awaitLoader"
    /\ UNCHANGED <<envVars, links, promises, all, unified, server, mergeCount,
                   rejection, stderr, lateSettled, outOfOrder, req>>

\* createNewSchema resumes after `await createRemoteExecutableSchemas(uris)`.
\* `schemas.concat` is evaluated first: on undefined it throws a TypeError
\* before mergeSchemas is called.  Nothing in createNewSchema or runServer
\* catches, so either error rejects the promise runServer() returned; that
\* promise has no rejection handler.
Merge ==
    /\ pc = "awaitLoader"
    /\ IF schemas.tag # "array"
       THEN /\ rejection' = IF schemas.tag = "undefined" THEN "TypeError" ELSE "LoaderError"
            /\ pc' = "rejected"
            /\ UNCHANGED <<unified, mergeCount>>
       ELSE IF mergeThrows
       THEN /\ rejection' = "MergeError"
            /\ mergeCount' = mergeCount + 1
            /\ pc' = "rejected"
            /\ UNCHANGED unified
       ELSE /\ unified' = mergeSchemas(Concat(schemas.val), createLinkResolvers(schemas.val))
            /\ mergeCount' = mergeCount + 1
            /\ pc' = "awaitSchema"
            /\ UNCHANGED rejection
    /\ UNCHANGED <<envVars, links, promises, all, schemas, server, stdout,
                   stderr, lateSettled, outOfOrder, req>>

\* Mutant: the server is constructed but listen() is never called.
StartServerNoListen ==
    /\ pc = "awaitSchema"
    /\ server' = [constructed |-> TRUE, schema |-> unified,
                  introspection |-> TRUE, playground |-> FALSE]
    /\ pc' = "constructed"
    /\ UNCHANGED <<envVars, links, promises, all, schemas, unified, mergeCount,
                   rejection, stdout, stderr, lateSettled, outOfOrder, req>>

\* runServer resumes after `await createNewSchema(...)`: it constructs the
\* ApolloServer around the schema and calls server.listen.
StartServer ==
    /\ pc = "awaitSchema"
    /\ server' = [constructed |-> TRUE, schema |-> unified,
                  introspection |-> TRUE, playground |-> FALSE]
    /\ pc' = "binding"
    /\ UNCHANGED <<envVars, links, promises, all, schemas, unified, mergeCount,
                   rejection, stdout, stderr, lateSettled, outOfOrder, req>>

\* The promise of server.listen settles: on success the then-callback logs
\* the url; on failure nothing handles the rejection and the server does not
\* listen.
Bind ==
    /\ pc = "binding"
    /\ IF bindFails
       THEN /\ pc' = "bindFailed"
            /\ UNCHANGED stdout
       ELSE /\ pc' = "listening"
            /\ stdout' = Append(stdout, ListenMessage)
    /\ UNCHANGED <<envVars, links, promises, all, schemas, unified, server,
                   mergeCount, rejection, stderr, lateSettled, outOfOrder, req>>

-----------------------------------------------------------------------------
(* Serving *)

\* Mutant: the schema is stitched again for every request.
ResolveRebuilding(r, f, a) ==
    /\ pc = "listening"
    /\ req[r].status \in {"idle", "done"}
    /\ unified' = mergeSchemas(Concat(schemas.val), createLinkResolvers(schemas.val))
    /\ mergeCount' = mergeCount + 1
    /\ LET context == [requestId |-> r]
           info == [parentType |-> "User", fieldName |-> f, requestId |-> r]
           rs == server.schema.resolvers.User
           calls == IF f = "cart" THEN resolveCart(rs.cart, a, context, info)
                                  ELSE resolveOrders(rs.orders, a, context, info)
       IN req' = [req EXCEPT ![r] = [status |-> "pending", field |-> f, args |-> a,
                                     calls |-> calls, failing |-> {},
                                     response |-> "none"]]
    /\ UNCHANGED <<envVars, pc, links, promises, all, schemas, server,
                   rejection, stdout, stderr, lateSettled, outOfOrder>>

\* A client request selecting link field f of a User with arguments a reaches
\* the gateway; the execution engine calls the field's resolver of the served
\* schema with the request's own context and info, and the resolver returns
\* the promise of its delegation.
Resolve(r, f, a) ==
    /\ pc = "listening"
    /\ req[r].status \in {"idle", "done"}
    /\ LET context == [requestId |-> r]
           info == [parentType |-> "User", fieldName |-> f, requestId |-> r]
           rs == server.schema.resolvers.User
           calls == IF f = "cart" THEN resolveCart(rs.cart, a, context, info)
                                  ELSE resolveOrders(rs.orders, a, context, info)
       IN req' = [req EXCEPT ![r] = [status |-> "pending", field |-> f, args |-> a,
                                     calls |-> calls, failing |-> {},
                                     response |-> "none"]]
    /\ UNCHANGED <<envVars, pc, links, promises, all, schemas, unified, server,
                   mergeCount, rejection, stdout, stderr, lateSettled, outOfOrder>>

\* The delegation of request r settles while the upstreams in `failing`
\* answer with an error: the promise the resolver returned is rejected when
\* its target is among them, which the engine reports as an error of that
\* field in that response.  The response is sent and the resolver call, with
\* its arguments, is over.
DelegateSettle(r, failing) ==
    /\ req[r].status = "pending"
    /\ LET failed == \E k \in 1..Len(req[r].calls) :
                         req[r].calls[k].schema.link.uri \in failing
       IN req' = [req EXCEPT ![r] = [status |-> "done", field |-> req[r].field,
                                     args |-> "none", calls |-> <<>>,
                                     failing |-> failing,
                                     response |-> IF failed THEN "fieldError"
                                                            ELSE "data"]]
    /\ UNCHANGED <<envVars, pc, links, promises, all, schemas, unified, server,
                   mergeCount, rejection, stdout, stderr, lateSettled, outOfOrder>>

-----------------------------------------------------------------------------
(* Specifications *)

StartupStep ==
    \/ Main
    \/ \E i \in Positions : IntrospectSettle(i)
    \/ LoaderResume
    \/ Merge
    \/ StartServer
    \/ Bind

Next ==
    \/ Main
    \/ \E i \in Positions : IntrospectSettle(i)
    \/ LoaderResume
    \/ Merge
    \/ StartServer
    \/ Bind
    \/ \E r \in Requests, f \in LinkFields, a \in ArgValues : Resolve(r, f, a)
    \/ \E r \in Requests, failing \in SUBSET URIs : DelegateSettle(r, failing)

Spec == Init /\ [][Next]_vars

\* The event loop runs every continuation that is ready, and every
\* introspection call issued gets its answer or its error.
FairSpec == Spec /\ WF_vars(StartupStep)

-----------------------------------------------------------------------------
(* Properties *)

Settled(i) == promises[i].state \in {"fulfilled", "rejected"}

ErrorLines(out) == Cardinality({k \in 1..Len(out) : out[k] = ErrorMessage})

\* C1: whenever the server is listening, the schema it serves was merged from
\* one proxy schema per configured URI, in order, plus the link extension;
\* every introspection succeeded and neither the wrapping nor the merge threw.
C1_ListeningServesEveryUpstream ==
    pc = "listening" =>
        /\ \A i \in Positions : promises[i].state = "fulfilled"
        /\ \A i \in Positions : uris[i] \notin unreachable
        /\ ~wrapThrows /\ ~mergeThrows
        /\ server.schema.built
        /\ Len(server.schema.schemas) = NumUpstreams + 1
        /\ \A i \in Positions :
              /\ server.schema.schemas[i].schema.from = uris[i]
              /\ server.schema.schemas[i].link.uri = uris[i]
        /\ server.schema.schemas[NumUpstreams + 1] = linkTypeDefs

C1_Witness ==
    /\ pc = "listening"
    /\ server.schema.built
    /\ outOfOrder

\* C2: every resolution of User.cart makes exactly one delegation, a query for
\* cartForCurrentUser against the schema at position 0 of the list given to
\* createLinkResolvers; every resolution of User.orders exactly one, a query
\* for ordersForCurrentCustomer against position 1; position 2 is never the
\* target; args, context and info are those of the resolved field.
C2_PositionalDelegation ==
    \A r \in Requests :
        req[r].status = "pending" =>
            /\ Len(req[r].calls) = 1
            /\ LET call == req[r].calls[1]
                   list == schemas.val
               IN /\ call.operation = "query"
                  /\ req[r].field = "cart" =>
                        /\ call.fieldName = "cartForCurrentUser"
                        /\ call.schema = list[1]
                  /\ req[r].field = "orders" =>
                        /\ call.fieldName = "ordersForCurrentCustomer"
                        /\ call.schema = list[2]
                  /\ call.schema # list[3]
                  /\ call.schema.link.uri # uris[3]
                  /\ call.args = req[r].args
                  /\ call.context = [requestId |-> r]
                  /\ call.info = [parentType |-> "User", fieldName |-> req[r].field,
                                  requestId |-> r]

C2_Witness ==
    /\ req[1].status = "pending" /\ req[1].field = "cart" /\ req[1].args = "args1"
    /\ req[2].status = "pending" /\ req[2].field = "orders" /\ req[2].args = "args2"

\* C3: when createRemoteExecutableSchemas returns a list, the proxy schema at
\* position i holds the introspection result of the URI at position i and
\* the link bound to that URI, for every i.
C3_ResultInInputOrder ==
    schemas.tag = "array" =>
        /\ Len(schemas.val) = NumUpstreams
        /\ \A i \in Positions :
              /\ schemas.val[i].schema.from = uris[i]
              /\ schemas.val[i].link.uri = uris[i]

C3_Witness ==
    /\ schemas.tag = "array"
    /\ outOfOrder
    /\ pc = "awaitLoader"

\* C4 as stated: the introspection calls are all issued together, and
\* createRemoteExecutableSchemas has returned only when every call is settled.
C4_CompletesOnlyWhenAllIntrospected ==
    /\ \A i, j \in Positions :
          promises[i].state = "notIssued" <=> promises[j].state = "notIssued"
    /\ schemas.tag # "pending" => \A i \in Positions : Settled(i)

\* C4 (amended): the introspection calls are all issued together, none after
\* another has settled; createRemoteExecutableSchemas returns a list only
\* when every call has succeeded, and returns at all only when every call has
\* succeeded or one has failed.
C4_IssuedTogetherAllOrFirstFailure ==
    /\ \A i, j \in Positions :
          promises[i].state = "notIssued" <=> promises[j].state = "notIssued"
    /\ schemas.tag = "array" => \A i \in Positions : promises[i].state = "fulfilled"
    /\ schemas.tag # "pending" =>
          \/ \A i \in Positions : promises[i].state = "fulfilled"
          \/ \E i \in Positions : promises[i].state = "rejected"

C4_Witness ==
    /\ schemas.tag = "undefined"
    /\ \E i \in Positions : promises[i].state = "rejected"
    /\ \E i \in Positions : promises[i].state = "pending"

\* C5: once createRemoteExecutableSchemas has returned it has not thrown; if
\* an introspection failed it returned undefined and the fixed message is on
\* the log; a list it returns has one proxy per upstream.
C5_FailureCaughtLoggedUndefined ==
    schemas.tag # "pending" =>
        /\ schemas.tag \in {"array", "undefined"}
        /\ rejection # "LoaderError"
        /\ (\E i \in Positions : promises[i].state = "rejected") =>
              /\ schemas = Undefined
              /\ ErrorLines(stdout) >= 1
        /\ schemas.tag = "array" =>
              /\ Len(schemas.val) = NumUpstreams
              /\ \A i \in Positions : promises[i].state = "fulfilled"

C5_Witness ==
    /\ schemas = Undefined
    /\ \E i \in Positions : promises[i].state = "rejected"
    /\ \E i \in Positions : promises[i].state = "fulfilled"
    /\ stdout = <<ErrorMessage>>

\* C6 as stated: when the loader returned undefined and schema construction
\* threw, the top-level catch block has logged that error to standard error.
C6_OuterCatchLogsError ==
    (pc = "rejected" /\ schemas.tag = "undefined") =>
        /\ Len(stderr) >= 1
        /\ stderr[Len(stderr)] = rejection

\* C7: requests are served only by a listening gateway, which keeps
\* listening; a finished request for User.cart carries a field error exactly
\* when the upstream at position 0 failed its delegation, one for User.orders
\* exactly when the upstream at position 1 did, whatever happened to the
\* other requests and the other upstreams.
C7_RequestIsolation ==
    \A r \in Requests :
        /\ req[r].status # "idle" => pc = "listening"
        /\ req[r].status = "done" =>
              /\ req[r].field = "cart" =>
                    (req[r].response = "fieldError" <=> uris[1] \in req[r].failing)
              /\ req[r].field = "orders" =>
                    (req[r].response = "fieldError" <=> uris[2] \in req[r].failing)
              /\ req[r].response \in {"data", "fieldError"}

C7_Witness ==
    /\ pc = "listening"
    /\ req[1].status = "done" /\ req[1].field = "cart"
    /\ req[1].response = "fieldError"
    /\ req[2].status = "done" /\ req[2].field = "orders"
    /\ req[2].response = "data" /\ uris[1] \in req[2].failing

\* C8: mergeSchemas is called at most once, by the startup chain; once the
\* schema is in the server, no step changes the server's schema, the unified
\* schema with its resolver map, or the list of proxy schemas.
C8_BuiltOnceThenImmutable ==
    [][/\ mergeCount' <= 1
       /\ mergeCount' # mergeCount => pc = "awaitLoader"
       /\ server.constructed =>
             /\ server' = server
             /\ unified' = unified
             /\ schemas' = schemas
             /\ mergeCount' = mergeCount]_vars

C8_Witness ==
    /\ pc = "listening"
    /\ mergeCount = 1
    /\ server.schema = unified
    /\ req[1].status = "done"
    /\ req[2].status = "pending"

\* C9: with fair scheduling, a startup in which every introspection succeeds,
\* nothing throws and the port binds leads to the listening state, and a
\* listening gateway never leaves that state.
C9_EventuallyListeningForever ==
    /\ (unreachable = {} /\ ~wrapThrows /\ ~mergeThrows /\ ~bindFails)
          => <>(pc = "listening")
    /\ [][pc = "listening" => pc' = "listening"]_vars

C9_Witness ==
    /\ pc = "listening"
    /\ unreachable = {} /\ ~wrapThrows /\ ~mergeThrows /\ ~bindFails
    /\ \A r \in Requests : req[r].status = "done"

\* C10: Promise.all settles once and createRemoteExecutableSchemas returns
\* once: after that no introspection call that settles changes either, and
\* the fixed message is logged at most once, never after the return.
C10_SettlesOnceLogsOnce ==
    [][/\ all.state # "pending" => all' = all
       /\ schemas.tag # "pending" =>
             /\ schemas' = schemas
             /\ ErrorLines(stdout') = ErrorLines(stdout)
       /\ ErrorLines(stdout') <= 1
       /\ schemas'.tag = "undefined" => ErrorLines(stdout') = 1]_vars

C10_Witness ==
    /\ schemas = Undefined
    /\ ErrorLines(stdout) = 1
    /\ Cardinality({i \in Positions : promises[i].state = "rejected"}) >= 2
    /\ \E i \in lateSettled : promises[i].state = "rejected"
    /\ \E i \in lateSettled : promises[i].state = "fulfilled"

====
